---- MODULE Spec2Model ----
(***************************************************************************)
(* A model of qrcode_mcp: the QR generation engine (generator.py) and the  *)
(* tool operations of the MCP server (server.py).                          *)
(*                                                                         *)
(* Python strings are sequences of one-character strings, so that strip,   *)
(* lstrip, slicing, upper, lower and int(x, 16) are computed as Python     *)
(* computes them.  The QR encoder and the PIL raster operations are        *)
(* external libraries: the model keeps what the generator's code depends   *)
(* on (which stage raises what, the pixel mode, the codec chosen by save). *)
(***************************************************************************)
EXTENDS Integers, Sequences, FiniteSets, TLC

VARIABLES
    config,     \* _CONFIG-derived module constants of the running process
    hashSeed,   \* the running interpreter's string-hash seed
    dirs,       \* filesystem: the directories that exist
    files,      \* filesystem: output path -> what was written there
    call,       \* the request being served: operation and arguments
    result,     \* what the call returned or raised
    trace,      \* the stages the call went through, in order
    calls,      \* number of requests served so far
    listings,   \* per field, the valid-key listings shown in error messages
    previous,   \* the request served before this one: call, result, file written
    workers     \* requests being served side by side, each with its position

vars == <<config, hashSeed, dirs, files, call, result, trace, calls, listings,
          previous, workers>>

\* ------------------------------------------------------------------------
\* Bounds of the model
\* ------------------------------------------------------------------------

\* longest colour body (after the leading '#'s) tried against _parse_color
MaxColorLen == 6

\* most leading '#' characters put in front of a colour body
MaxHashes == 2

\* ------------------------------------------------------------------------
\* Python string helpers
\* ------------------------------------------------------------------------

None == "None"

Min(a, b) == IF a <= b THEN a ELSE b

Max(a, b) == IF a >= b THEN a ELSE b

HexDigits == {"0","1","2","3","4","5","6","7","8","9",
              "a","b","c","d","e","f","A","B","C","D","E","F"}

Whitespace == {" "}

HexValue(c) ==
    CASE c = "0" -> 0  [] c = "1" -> 1  [] c = "2" -> 2  [] c = "3" -> 3
      [] c = "4" -> 4  [] c = "5" -> 5  [] c = "6" -> 6  [] c = "7" -> 7
      [] c = "8" -> 8  [] c = "9" -> 9
      [] c \in {"a", "A"} -> 10  [] c \in {"b", "B"} -> 11
      [] c \in {"c", "C"} -> 12  [] c \in {"d", "D"} -> 13
      [] c \in {"e", "E"} -> 14  [] c \in {"f", "F"} -> 15

\* s[i:j] of Python, 0-based and end-exclusive, clipped to the string
Slice(s, i, j) == SubSeq(s, i + 1, Min(j, Len(s)))

RECURSIVE LStripSet(_, _)
LStripSet(s, chars) ==
    IF s # <<>> /\ Head(s) \in chars THEN LStripSet(Tail(s), chars) ELSE s

RECURSIVE RStripSet(_, _)
RStripSet(s, chars) ==
    IF s # <<>> /\ s[Len(s)] \in chars
    THEN RStripSet(SubSeq(s, 1, Len(s) - 1), chars)
    ELSE s

\* str.strip()
Strip(s) == RStripSet(LStripSet(s, Whitespace), Whitespace)

\* "".join(c * 2 for c in s)
RECURSIVE DoubleEach(_)
DoubleEach(s) ==
    IF s = <<>> THEN <<>> ELSE <<Head(s), Head(s)>> \o DoubleEach(Tail(s))

\* int(t, 16) for a two-character t: surrounding whitespace is stripped, one
\* sign is accepted, the rest must be hex digits ("0x", "_" leave no digits).
\* The result is <<n>>, or <<>> where int raises ValueError.
Int16(t) ==
    LET u == Strip(t)
        signed == u # <<>> /\ Head(u) \in {"+", "-"}
        digits == IF signed THEN Tail(u) ELSE u
        RECURSIVE Val(_, _)
        Val(d, acc) == IF d = <<>> THEN acc
                       ELSE Val(Tail(d), 16 * acc + HexValue(Head(d)))
    IN  IF digits = <<>> \/ \E i \in 1..Len(digits) : digits[i] \notin HexDigits
        THEN <<>>
        ELSE IF signed /\ Head(u) = "-" THEN <<0 - Val(digits, 0)>>
             ELSE <<Val(digits, 0)>>

\* ------------------------------------------------------------------------
\* generator.py: _parse_color
\* ------------------------------------------------------------------------

Raise(exc, msg) == [ok |-> FALSE, exc |-> exc, msg |-> msg]

\* _parse_color without the expansion of the 3-digit shorthand
ParseColorNoShorthand(color) ==
    LET c == LStripSet(Strip(color), {"#"})
        r == Int16(Slice(c, 0, 2))
        g == Int16(Slice(c, 2, 4))
        b == Int16(Slice(c, 4, 6))
    IN  IF Len(c) # 6
        THEN Raise("ValueError", [kind |-> "Invalid color", value |-> c])
        ELSE IF r = <<>> \/ g = <<>> \/ b = <<>>
        THEN Raise("ValueError", [kind |-> "invalid literal for int()", value |-> c])
        ELSE [ok |-> TRUE, rgb |-> <<r[1], g[1], b[1]>>]

_parse_color(color) ==
    LET stripped == LStripSet(Strip(color), {"#"})
        c == IF Len(stripped) = 3 THEN DoubleEach(stripped) ELSE stripped
        r == Int16(Slice(c, 0, 2))
        g == Int16(Slice(c, 2, 4))
        b == Int16(Slice(c, 4, 6))
    IN  IF Len(c) # 6
        THEN Raise("ValueError", [kind |-> "Invalid color", value |-> c])
        ELSE IF r = <<>> \/ g = <<>> \/ b = <<>>
        THEN Raise("ValueError", [kind |-> "invalid literal for int()", value |-> c])
        ELSE [ok |-> TRUE, rgb |-> <<r[1], g[1], b[1]>>]

\* ------------------------------------------------------------------------
\* String constants of the program
\* ------------------------------------------------------------------------

LowerLetters == <<"a","b","c","d","e","f","g","h","i","j","k","l","m",
                  "n","o","p","q","r","s","t","u","v","w","x","y","z">>

UpperLetters == <<"A","B","C","D","E","F","G","H","I","J","K","L","M",
                  "N","O","P","Q","R","S","T","U","V","W","X","Y","Z">>

LowerChar(c) ==
    IF \E i \in 1..26 : UpperLetters[i] = c
    THEN LowerLetters[CHOOSE i \in 1..26 : UpperLetters[i] = c]
    ELSE c

UpperChar(c) ==
    IF \E i \in 1..26 : LowerLetters[i] = c
    THEN UpperLetters[CHOOSE i \in 1..26 : LowerLetters[i] = c]
    ELSE c

\* str.lower() and str.upper()
Lower(s) == [i \in 1..Len(s) |-> LowerChar(s[i])]

Upper(s) == [i \in 1..Len(s) |-> UpperChar(s[i])]

S_png == <<"p","n","g">>
S_svg == <<"s","v","g">>
S_square == <<"s","q","u","a","r","e">>
S_gapped == <<"g","a","p","p","e","d">>
S_circle == <<"c","i","r","c","l","e">>
S_rounded == <<"r","o","u","n","d","e","d">>
S_vertical_bars == <<"v","e","r","t","i","c","a","l","_","b","a","r","s">>
S_horizontal_bars == <<"h","o","r","i","z","o","n","t","a","l","_","b","a","r","s">>
S_solid == <<"s","o","l","i","d">>
S_radial == <<"r","a","d","i","a","l">>
S_horizontal == <<"h","o","r","i","z","o","n","t","a","l">>
S_vertical == <<"v","e","r","t","i","c","a","l">>
S_black == <<"#","0","0","0","0","0","0">>
S_white == <<"#","F","F","F","F","F","F">>
S_navy == <<"#","0","0","0","0","8","8">>
S_red == <<"#","F","F","0","0","0","0">>
S_blue == <<"#","0","0","0","0","F","F">>

\* ------------------------------------------------------------------------
\* generator.py: constants
\* ------------------------------------------------------------------------

SUPPORTED_FORMATS == <<S_png, S_svg>>

ERROR_CORRECT_H == <<"H">>

\* the keys of the dict ERROR_CORRECTION_LEVELS; a level is named by its key
ERROR_CORRECTION_LEVELS == << <<"L">>, <<"M">>, <<"Q">>, ERROR_CORRECT_H >>

\* the keys of the dict MODULE_SHAPES, in insertion order (the order of
\* iteration of a dict)
MODULE_SHAPES == <<S_square, S_gapped, S_circle, S_rounded,
                   S_vertical_bars, S_horizontal_bars>>

\* the keys of the dict GRADIENT_STYLES, in insertion order
GRADIENT_STYLES == <<S_solid, S_radial, S_square, S_horizontal, S_vertical>>

\* the set literal valid_gradients of generate_gradient, as written
valid_gradients == <<S_radial, S_square, S_horizontal, S_vertical>>

Range(seq) == {seq[i] : i \in 1..Len(seq)}

\* the drawers that draw antialiased shapes (all but the two square ones)
AntialiasedDrawers == {S_circle, S_rounded, S_vertical_bars, S_horizontal_bars}

\* data[:TruncLen] is what a record echoes of the payload
TruncLen == 200

\* a pixel is made transparent when every channel exceeds this
WhiteThreshold == 240

\* ------------------------------------------------------------------------
\* The interpreter and the filesystem
\* ------------------------------------------------------------------------

Rotate(seq, k) == [i \in 1..Len(seq) |-> seq[((i - 1 + k) % Len(seq)) + 1]]

\* The order in which a set of strings is iterated depends on the string
\* hashes, which the interpreter seeds at start-up: the order is fixed within
\* a process and differs between processes.  The model draws it among the
\* rotations of the order the literal is written in.
SetIterationOrder(literal, seed) == Rotate(literal, seed)

\* an optional argument: <<>> when the caller omits it, <<v>> when given
Given(v) == <<v>>

Omitted == <<>>

OrDefault(opt, default) == IF opt = <<>> THEN default ELSE opt[1]

\* the truth value of an optional string: None and "" are false
Truthy(x) == x \notin {None, ""}

\* the paths that may be given as logo_path / image_path, and what is there
Assets ==
    [missing |-> [is_file |-> FALSE, is_image |-> FALSE],
     folder  |-> [is_file |-> FALSE, is_image |-> FALSE],
     notes   |-> [is_file |-> TRUE,  is_image |-> FALSE],
     logo    |-> [is_file |-> TRUE,  is_image |-> TRUE,
                  px |-> <<250, 128, 0>>, size |-> <<200, 100>>],
     icon    |-> [is_file |-> TRUE,  is_image |-> TRUE,
                  px |-> <<250, 128, 0>>, size |-> <<40, 20>>],
     tall    |-> [is_file |-> TRUE,  is_image |-> TRUE,
                  px |-> <<250, 128, 0>>, size |-> <<15, 300>>]]

\* Path(p).is_file()
IsFile(p) == Assets[p].is_file

\* Image.open(p) on a regular file: raises unless the bytes are an image
ImageOpen(p) ==
    IF Assets[p].is_image
    THEN [ok |-> TRUE, image |-> [mode |-> "RGBA", px |-> <<Assets[p].px>>,
                                  size |-> Assets[p].size]]
    ELSE Raise("UnidentifiedImageError", [kind |-> "cannot identify image file", value |-> p])

\* _ensure_output_dir: mkdir(parents=True, exist_ok=True)
_ensure_output_dir(D, output_dir) == D \cup {output_dir}

\* out_path / f"{filename}.{ext}"
NamedPath(out_path, filename, ext) ==
    [dir |-> out_path, filename |-> filename, prefix |-> <<>>, stamp |-> 0, ext |-> ext]

\* _unique_filename: out_path / f"{prefix}_{stamp}.{ext}", the stamp being the
\* first 8 hex digits of the md5 of time.time(), here the clock reading itself
_unique_filename(out_path, prefix, ext, now) ==
    [dir |-> out_path, filename |-> "", prefix |-> prefix, stamp |-> now, ext |-> ext]

\* a path that takes the clock's token even when a filename is given
SavePathAlwaysUnique(out_path, filename, prefix, ext, now) ==
    [NamedPath(out_path, filename, ext) EXCEPT !.stamp = now]

\* lines 233-236: the given filename, or else a generated one
SavePath(out_path, filename, prefix, ext, now) ==
    IF Truthy(filename) THEN NamedPath(out_path, filename, ext)
    ELSE _unique_filename(out_path, prefix, ext, now)

\* a write that leaves a second file next to the one asked for
WriteFileAndBackup(F, path, content) ==
    [p \in DOMAIN F \cup {path, [path EXCEPT !.ext = <<"b","a","k">>]} |->
        IF p \in {path, [path EXCEPT !.ext = <<"b","a","k">>]} THEN content ELSE F[p]]

\* the file at path is created or replaced; every other file stays
WriteFile(F, path, content) ==
    [p \in DOMAIN F \cup {path} |-> IF p = path THEN content ELSE F[p]]

\* ------------------------------------------------------------------------
\* The libraries: qrcode (encoder, StyledPilImage) and PIL
\* ------------------------------------------------------------------------

\* ERROR_CORRECTION_LEVELS.get(error_correction.upper(), ERROR_CORRECT_H)
ECGet(error_correction) ==
    IF Upper(error_correction) \in Range(ERROR_CORRECTION_LEVELS)
    THEN Upper(error_correction)
    ELSE ERROR_CORRECT_H

\* qrcode.QRCode(version=None, error_correction=ec, box_size, border);
\* add_data(data); make(fit=True): the symbol, kept as what it encodes
Encode(data, ec, size, border) ==
    [data |-> data, ec |-> ec, box_size |-> size, border |-> border]

\* the digits a symbol of the largest version holds at each level; the
\* payloads here are digit strings, which the encoder packs in numeric mode
Capacity(ec) ==
    CASE ec = <<"L">> -> 7089
      [] ec = <<"M">> -> 5596
      [] ec = <<"Q">> -> 3993
      [] ec = <<"H">> -> 3057

\* make(fit=True) finds a version for the payload, or raises
Fits(data, ec) == Len(data) <= Capacity(ec)

DataOverflow(data) ==
    Raise("DataOverflowError", [kind |-> "data overflow", value |-> Len(data)])

Blend(front, back) == [i \in 1..3 |-> (front[i] + back[i]) \div 2]

\* qr.make_image(image_factory=StyledPilImage, module_drawer, color_mask):
\* an RGB image of kind PNG.  Its pixels are kept as a sample: one pixel per
\* module colour of the mask, one antialiased edge pixel where the drawer
\* antialiases, one background pixel.
Render(qr, drawer, mask) ==
    [mode |-> "RGB", qr |-> qr, drawer |-> drawer, mask |-> mask.kind,
     px |-> mask.fronts
            \o (IF drawer \in AntialiasedDrawers
                THEN <<Blend(mask.fronts[1], mask.back)>> ELSE <<>>)
            \o <<mask.back>>]

SolidFillColorMask(back, front) ==
    [kind |-> S_solid, back |-> back, fronts |-> <<front>>]

GradientMask(grad_key, back, first, second) ==
    [kind |-> grad_key, back |-> back, fronts |-> <<first, second>>]

\* Image.convert("RGBA") of an RGB image: every pixel opaque
ConvertRGBA(img) ==
    [img EXCEPT !.mode = "RGBA",
                !.px = [i \in 1..Len(img.px) |-> img.px[i] \o <<255>>]]

\* Image.convert("RGB"): the alpha channel is dropped
ConvertRGB(img) ==
    [img EXCEPT !.mode = "RGB",
                !.px = [i \in 1..Len(img.px) |-> SubSeq(img.px[i], 1, 3)]]

\* StyledPilImage.save(path): the wrapped image is saved with
\* format = self.kind = "PNG" whatever the extension of the path
StyledSave(F, path, img) ==
    [ok |-> TRUE, files |-> WriteFile(F, path, [codec |-> "PNG", image |-> img])]

\* the codecs PIL registers for the extensions used here (lower-cased)
PilExtension(ext) ==
    CASE Lower(ext) = S_png -> "PNG"
      [] Lower(ext) \in {<<"j","p","g">>, <<"j","p","e","g">>} -> "JPEG"
      [] Lower(ext) = <<"b","m","p">> -> "BMP"
      [] OTHER -> "unknown"

\* Image.save(path) of PIL: the codec is looked up from the extension before
\* the file is opened; an unknown extension raises ValueError
PilSave(F, path, img) ==
    IF PilExtension(path.ext) = "unknown"
    THEN Raise("ValueError", [kind |-> "unknown file extension", value |-> path.ext])
    ELSE [ok |-> TRUE,
          files |-> WriteFile(F, path, [codec |-> PilExtension(path.ext), image |-> img])]

\* ------------------------------------------------------------------------
\* generator.py: the six generation functions.  Each yields the filesystem
\* it leaves, what it returns or raises, and the stages it went through.
\* a: the arguments, cfg: the configuration, D, F: directories and files
\* before the call, now: the clock reading _unique_filename would take.
\* ------------------------------------------------------------------------

Returned(record) == [status |-> "returned", value |-> record]

\* a cut that marks itself: three dots in place of the last characters kept
TruncateWithEllipsis(data) ==
    IF Len(data) > TruncLen
    THEN Slice(data, 0, TruncLen - 3) \o <<".", ".", ".">>
    ELSE data

\* data[:200], the payload as every record echoes it
Truncate(data) == Slice(data, 0, TruncLen)

\* the level of the caller, looked up as the other functions do
LogoLevelOfCaller(error_correction) ==
    IF Upper(error_correction) \in Range(ERROR_CORRECTION_LEVELS)
    THEN Upper(error_correction)
    ELSE ERROR_CORRECT_H

\* line 398: generate_with_logo encodes at H whatever error_correction is
LogoErrorCorrection(error_correction) == ERROR_CORRECT_H

Raised(e) == [status |-> "raised", exc |-> e.exc, msg |-> e.msg]

Outcome(D, F, res, stages) ==
    [dirs |-> D, files |-> F, result |-> res, trace |-> stages]

UnknownKey(field, value, listing) ==
    Raise("ValueError", [kind |-> "Unknown key", field |-> field,
                         value |-> value, listing |-> listing])

\* the check of module_shape that five of the functions share
CheckShape(module_shape) ==
    IF Lower(module_shape) \notin Range(MODULE_SHAPES)
    THEN UnknownKey("module_shape", module_shape, MODULE_SHAPES)
    ELSE [ok |-> TRUE, key |-> Lower(module_shape)]

OutputDir(a, cfg) == IF a.output_dir = None THEN cfg.output_dir ELSE a.output_dir

generate_basic(a, cfg, D, F, now) ==
    LET output_dir == OutputDir(a, cfg)
        size == OrDefault(a.size, cfg.default_size)
        border == OrDefault(a.border, cfg.default_border)
        output_format == OrDefault(a.output_format, cfg.default_format)
        D1 == _ensure_output_dir(D, output_dir)
        ec == ECGet(a.error_correction)
        fg == _parse_color(a.fg_color)
        bg == _parse_color(a.bg_color)
        qr == Encode(a.data, ec, size, border)
        img == Render(qr, S_square, SolidFillColorMask(bg.rgb, fg.rgb))
        save_path == SavePath(output_dir, a.filename, <<"q","r","_","b","a","s","i","c">>,
                              output_format, now)
        saved == StyledSave(F, save_path, img)
    IN  IF ~fg.ok THEN Outcome(D1, F, Raised(fg), <<"mkdir", "parse_color">>)
        ELSE IF ~bg.ok THEN Outcome(D1, F, Raised(bg), <<"mkdir", "parse_color">>)
        ELSE IF ~Fits(a.data, ec)
        THEN Outcome(D1, F, Raised(DataOverflow(a.data)),
                 <<"mkdir", "parse_color", "encode">>)
        ELSE Outcome(D1, saved.files,
                 Returned([saved_path |-> save_path,
                           data |-> Truncate(a.data),
                           style |-> "basic",
                           fg_color |-> a.fg_color,
                           bg_color |-> a.bg_color,
                           size |-> size,
                           border |-> border,
                           error_correction |-> Upper(a.error_correction),
                           format |-> output_format]),
                 <<"mkdir", "parse_color", "encode", "render", "save">>)

generate_styled(a, cfg, D, F, now) ==
    LET output_dir == OutputDir(a, cfg)
        size == OrDefault(a.size, cfg.default_size)
        border == OrDefault(a.border, cfg.default_border)
        output_format == OrDefault(a.output_format, cfg.default_format)
        D1 == _ensure_output_dir(D, output_dir)
        ec == ECGet(a.error_correction)
        bg == _parse_color(a.bg_color)
        shape == CheckShape(a.module_shape)
        grad_key == Lower(a.gradient_style)
        fg == _parse_color(a.fg_color)
        center == _parse_color(IF a.gradient_center_color # <<>>
                               THEN a.gradient_center_color ELSE a.fg_color)
        edge == _parse_color(IF a.gradient_edge_color # <<>>
                             THEN a.gradient_edge_color ELSE S_navy)
        color_mask == IF grad_key = S_solid
                      THEN SolidFillColorMask(bg.rgb, fg.rgb)
                      ELSE GradientMask(grad_key, bg.rgb, center.rgb, edge.rgb)
        qr == Encode(a.data, ec, size, border)
        img == Render(qr, shape.key, color_mask)
        save_path == SavePath(output_dir, a.filename,
                              <<"q","r","_">> \o shape.key \o <<"_">> \o grad_key,
                              output_format, now)
        saved == StyledSave(F, save_path, img)
    IN  IF ~bg.ok THEN Outcome(D1, F, Raised(bg), <<"mkdir", "parse_color">>)
        ELSE IF ~shape.ok
        THEN Outcome(D1, F, Raised(shape), <<"mkdir", "parse_color", "check_shape">>)
        ELSE IF grad_key \notin Range(GRADIENT_STYLES)
        THEN Outcome(D1, F,
                 Raised(UnknownKey("gradient_style", a.gradient_style, GRADIENT_STYLES)),
                 <<"mkdir", "parse_color", "check_shape", "check_gradient">>)
        ELSE IF grad_key = S_solid /\ ~fg.ok
        THEN Outcome(D1, F, Raised(fg),
                 <<"mkdir", "parse_color", "check_shape", "check_gradient", "parse_color">>)
        ELSE IF grad_key # S_solid /\ ~center.ok
        THEN Outcome(D1, F, Raised(center),
                 <<"mkdir", "parse_color", "check_shape", "check_gradient", "parse_color">>)
        ELSE IF grad_key # S_solid /\ ~edge.ok
        THEN Outcome(D1, F, Raised(edge),
                 <<"mkdir", "parse_color", "check_shape", "check_gradient", "parse_color">>)
        ELSE IF ~Fits(a.data, ec)
        THEN Outcome(D1, F, Raised(DataOverflow(a.data)),
                 <<"mkdir", "parse_color", "check_shape", "check_gradient", "parse_color", "encode">>)
        ELSE Outcome(D1, saved.files,
                 Returned([saved_path |-> save_path,
                           data |-> Truncate(a.data),
                           style |-> "styled",
                           module_shape |-> shape.key,
                           gradient_style |-> grad_key,
                           fg_color |-> a.fg_color,
                           bg_color |-> a.bg_color,
                           size |-> size,
                           border |-> border,
                           error_correction |-> Upper(a.error_correction),
                           format |-> output_format]),
                 <<"mkdir", "parse_color", "check_shape", "check_gradient",
                   "parse_color", "encode", "render", "save">>)

\* logo_size_ratio is kept in hundredths: max(0.1, min(0.4, logo_size_ratio))
ClampRatio(ratio) == Max(10, Min(40, ratio))

\* the digits a symbol of versions 1 to 10 holds at level H
NumericCapacityH == <<17, 34, 58, 82, 106, 139, 154, 202, 235, 288>>

\* make(fit=True): the smallest version that holds the payload
Version(qr) ==
    CHOOSE v \in 1..Len(NumericCapacityH) :
        /\ Len(qr.data) <= NumericCapacityH[v]
        /\ \A u \in 1..(v - 1) : Len(qr.data) > NumericCapacityH[u]

\* img.size[0]: modules and borders, box_size pixels each
CanvasWidth(qr) == (17 + 4 * Version(qr) + 2 * qr.border) * qr.box_size

Abs(n) == IF n < 0 THEN -n ELSE n

Floor(num, den) == num \div den

Ceil(num, den) == IF num % den = 0 THEN num \div den ELSE (num \div den) + 1

\* round_aspect of Image.thumbnail: of the integers below and above the
\* exact side the one with the smaller key, the lower on a tie; 1 at least
RoundAspect(lo, hi, keyLo, keyHi) == Max(1, IF keyHi < keyLo THEN hi ELSE lo)

\* logo.thumbnail((m, m), Image.LANCZOS): an image that fits is left as it
\* is; a larger one is shrunk into the box, keeping its aspect w / h.  The
\* keys |w/h - n/m| and |w/h - m/n| are compared over a common denominator.
Thumbnail(size, m) ==
    LET w == size[1]
        h == size[2]
        xLo == Floor(m * w, h)
        xHi == Ceil(m * w, h)
        yLo == Floor(m * h, w)
        yHi == Ceil(m * h, w)
    IN  IF m >= w /\ m >= h THEN size
        ELSE IF h >= w
        THEN <<RoundAspect(xLo, xHi, Abs(w * m - xLo * h), Abs(w * m - xHi * h)), m>>
        ELSE <<m, RoundAspect(yLo, yHi,
                              IF yLo = 0 THEN 0 ELSE Abs(w * yLo - m * h) * yHi,
                              Abs(w * yHi - m * h) * yLo)>>

\* lines 427-452: the logo is shrunk, a white rounded rectangle is drawn
\* behind it and the logo pasted; ratio in hundredths.  The pixels are kept
\* as one sample of each, the geometry in full (boxes as x0, y0, x1, y1,
\* both corners inside).
OverlayLogo(img, logo, ratio) ==
    LET qr_width == CanvasWidth(img.qr)
        logo_max == (qr_width * ratio) \div 100
        thumb == Thumbnail(logo.size, logo_max)
        logo_w == thumb[1]
        logo_h == thumb[2]
        pad == logo_w \div 10
        cx == qr_width \div 2
        cy == qr_width \div 2
        rect == <<cx - logo_w \div 2 - pad, cy - logo_h \div 2 - pad,
                  cx + logo_w \div 2 + pad, cy + logo_h \div 2 + pad>>
        logo_pos == <<cx - logo_w \div 2, cy - logo_h \div 2>>
    IN  [px |-> img.px \o <<<<255, 255, 255, 255>>>>
                \o [i \in 1..Len(logo.px) |-> logo.px[i] \o <<255>>],
         mode |-> img.mode, qr |-> img.qr, drawer |-> img.drawer, mask |-> img.mask,
         overlay |-> [canvas |-> <<qr_width, qr_width>>,
                      logo_max |-> logo_max,
                      logo_size |-> thumb,
                      rect |-> rect,
                      radius |-> pad,
                      logo_box |-> <<logo_pos[1], logo_pos[2],
                                     logo_pos[1] + logo_w - 1,
                                     logo_pos[2] + logo_h - 1>>]]

generate_with_logo(a, cfg, D, F, now) ==
    LET output_dir == OutputDir(a, cfg)
        size == OrDefault(a.size, cfg.default_size)
        border == OrDefault(a.border, cfg.default_border)
        output_format == OrDefault(a.output_format, cfg.default_format)
        D1 == _ensure_output_dir(D, output_dir)
        ec == LogoErrorCorrection(a.error_correction)
        fg == _parse_color(a.fg_color)
        bg == _parse_color(a.bg_color)
        shape == CheckShape(a.module_shape)
        logo_size_ratio == ClampRatio(a.logo_size_ratio)
        qr == Encode(a.data, ec, size, border)
        img == ConvertRGBA(Render(qr, shape.key, SolidFillColorMask(bg.rgb, fg.rgb)))
        logo == ImageOpen(a.logo_path)
        final == ConvertRGB(OverlayLogo(img, logo.image, logo_size_ratio))
        save_path == SavePath(output_dir, a.filename, <<"q","r","_","l","o","g","o">>,
                              output_format, now)
        saved == PilSave(F, save_path, final)
    IN  IF ~IsFile(a.logo_path)
        THEN Outcome(D1, F,
                 Raised(Raise("FileNotFoundError",
                              [kind |-> "Logo file not found", value |-> a.logo_path])),
                 <<"mkdir", "check_asset">>)
        ELSE IF ~fg.ok
        THEN Outcome(D1, F, Raised(fg), <<"mkdir", "check_asset", "parse_color">>)
        ELSE IF ~bg.ok
        THEN Outcome(D1, F, Raised(bg), <<"mkdir", "check_asset", "parse_color">>)
        ELSE IF ~shape.ok
        THEN Outcome(D1, F, Raised(shape),
                 <<"mkdir", "check_asset", "parse_color", "check_shape">>)
        ELSE IF ~Fits(a.data, ec)
        THEN Outcome(D1, F, Raised(DataOverflow(a.data)),
                 <<"mkdir", "check_asset", "parse_color", "check_shape", "encode">>)
        ELSE IF ~logo.ok
        THEN Outcome(D1, F, Raised(logo),
                 <<"mkdir", "check_asset", "parse_color", "check_shape",
                   "encode", "render", "open_asset">>)
        ELSE IF ~saved.ok
        THEN Outcome(D1, F, Raised(saved),
                 <<"mkdir", "check_asset", "parse_color", "check_shape",
                   "encode", "render", "open_asset", "overlay", "save">>)
        ELSE Outcome(D1, saved.files,
                 Returned([saved_path |-> save_path,
                           data |-> Truncate(a.data),
                           style |-> "logo",
                           logo_path |-> a.logo_path,
                           logo_size_ratio |-> logo_size_ratio,
                           module_shape |-> shape.key,
                           fg_color |-> a.fg_color,
                           bg_color |-> a.bg_color,
                           size |-> size,
                           border |-> border,
                           error_correction |-> <<"H">>,
                           format |-> output_format]),
                 <<"mkdir", "check_asset", "parse_color", "check_shape",
                   "encode", "render", "open_asset", "overlay", "save">>)

\* ImageColorMask(back_color, color_mask_path): opens the image at the path
ImageColorMask(back, image) ==
    [kind |-> <<"i","m","a","g","e">>, back |-> back,
     fronts |-> [i \in 1..Len(image.px) |-> image.px[i]]]

generate_with_background_image(a, cfg, D, F, now) ==
    LET output_dir == OutputDir(a, cfg)
        size == OrDefault(a.size, cfg.default_size)
        border == OrDefault(a.border, cfg.default_border)
        output_format == OrDefault(a.output_format, cfg.default_format)
        D1 == _ensure_output_dir(D, output_dir)
        ec == ECGet(a.error_correction)
        shape == CheckShape(a.module_shape)
        qr == Encode(a.data, ec, size, border)
        opened == ImageOpen(a.image_path)
        img == Render(qr, shape.key, ImageColorMask(<<255, 255, 255>>, opened.image))
        save_path == SavePath(output_dir, a.filename, <<"q","r","_","i","m","a","g","e">>,
                              output_format, now)
        saved == StyledSave(F, save_path, img)
    IN  IF ~IsFile(a.image_path)
        THEN Outcome(D1, F,
                 Raised(Raise("FileNotFoundError",
                              [kind |-> "Image file not found", value |-> a.image_path])),
                 <<"mkdir", "check_asset">>)
        ELSE IF ~shape.ok
        THEN Outcome(D1, F, Raised(shape), <<"mkdir", "check_asset", "check_shape">>)
        ELSE IF ~Fits(a.data, ec)
        THEN Outcome(D1, F, Raised(DataOverflow(a.data)),
                 <<"mkdir", "check_asset", "check_shape", "encode">>)
        ELSE IF ~opened.ok
        THEN Outcome(D1, F, Raised(opened),
                 <<"mkdir", "check_asset", "check_shape", "encode", "open_asset">>)
        ELSE Outcome(D1, saved.files,
                 Returned([saved_path |-> save_path,
                           data |-> Truncate(a.data),
                           style |-> "background_image",
                           image_path |-> a.image_path,
                           module_shape |-> shape.key,
                           size |-> size,
                           border |-> border,
                           error_correction |-> Upper(a.error_correction),
                           format |-> output_format]),
                 <<"mkdir", "check_asset", "check_shape", "encode", "open_asset",
                   "render", "save">>)

\* the scan with "or" for "and": one channel above the threshold is enough
MakeAnyWhiteTransparent(img) ==
    [img EXCEPT !.px =
        [i \in 1..Len(img.px) |->
            IF \/ img.px[i][1] > WhiteThreshold
               \/ img.px[i][2] > WhiteThreshold
               \/ img.px[i][3] > WhiteThreshold
            THEN <<img.px[i][1], img.px[i][2], img.px[i][3], 0>>
            ELSE img.px[i]]]

\* lines 621-628: the scan of every pixel of the RGBA rendering
MakeWhiteTransparent(img) ==
    [img EXCEPT !.px =
        [i \in 1..Len(img.px) |->
            IF /\ img.px[i][1] > WhiteThreshold
               /\ img.px[i][2] > WhiteThreshold
               /\ img.px[i][3] > WhiteThreshold
            THEN <<img.px[i][1], img.px[i][2], img.px[i][3], 0>>
            ELSE img.px[i]]]

\* the format the other functions fall back to
TransparentFormatFromDefault(default_format) == default_format

\* lines 630-635 and 647: the extension and format generate_transparent saves
\* with, which is no parameter and not the configured default
TransparentFormat(default_format) == S_png

\* lines 611-619: the rendering against a white background, made RGBA
TransparentRendering(a, cfg) ==
    ConvertRGBA(Render(Encode(a.data, ECGet(a.error_correction),
                              OrDefault(a.size, cfg.default_size),
                              OrDefault(a.border, cfg.default_border)),
                       Lower(a.module_shape),
                       SolidFillColorMask(<<255, 255, 255>>, _parse_color(a.fg_color).rgb)))

generate_transparent(a, cfg, D, F, now) ==
    LET output_dir == OutputDir(a, cfg)
        size == OrDefault(a.size, cfg.default_size)
        border == OrDefault(a.border, cfg.default_border)
        D1 == _ensure_output_dir(D, output_dir)
        fg == _parse_color(a.fg_color)
        shape == CheckShape(a.module_shape)
        img == MakeWhiteTransparent(TransparentRendering(a, cfg))
        ext == TransparentFormat(cfg.default_format)
        save_path == SavePath(output_dir, a.filename,
                              <<"q","r","_","t","r","a","n","s","p","a","r","e","n","t">>,
                              ext, now)
        saved == WriteFile(F, save_path, [codec |-> "PNG", image |-> img])
    IN  IF ~fg.ok THEN Outcome(D1, F, Raised(fg), <<"mkdir", "parse_color">>)
        ELSE IF ~shape.ok
        THEN Outcome(D1, F, Raised(shape), <<"mkdir", "parse_color", "check_shape">>)
        ELSE IF ~Fits(a.data, ECGet(a.error_correction))
        THEN Outcome(D1, F, Raised(DataOverflow(a.data)),
                 <<"mkdir", "parse_color", "check_shape", "encode">>)
        ELSE Outcome(D1, saved,
                 Returned([saved_path |-> save_path,
                           data |-> Truncate(a.data),
                           style |-> "transparent",
                           fg_color |-> a.fg_color,
                           module_shape |-> shape.key,
                           size |-> size,
                           border |-> border,
                           error_correction |-> Upper(a.error_correction),
                           format |-> ext]),
                 <<"mkdir", "parse_color", "check_shape", "encode", "render",
                   "alpha_scan", "save">>)

generate_gradient(a, cfg, D, F, now, seed) ==
    LET output_dir == OutputDir(a, cfg)
        size == OrDefault(a.size, cfg.default_size)
        border == OrDefault(a.border, cfg.default_border)
        output_format == OrDefault(a.output_format, cfg.default_format)
        D1 == _ensure_output_dir(D, output_dir)
        ec == ECGet(a.error_correction)
        bg == _parse_color(a.bg_color)
        center == _parse_color(a.center_color)
        edge == _parse_color(a.edge_color)
        shape == CheckShape(a.module_shape)
        grad_key == Lower(a.gradient_style)
        color_mask == GradientMask(grad_key, bg.rgb, center.rgb, edge.rgb)
        qr == Encode(a.data, ec, size, border)
        img == Render(qr, shape.key, color_mask)
        save_path == SavePath(output_dir, a.filename,
                              <<"q","r","_","g","r","a","d","i","e","n","t","_">> \o grad_key,
                              output_format, now)
        saved == StyledSave(F, save_path, img)
    IN  IF ~bg.ok THEN Outcome(D1, F, Raised(bg), <<"mkdir", "parse_color">>)
        ELSE IF ~center.ok THEN Outcome(D1, F, Raised(center), <<"mkdir", "parse_color">>)
        ELSE IF ~edge.ok THEN Outcome(D1, F, Raised(edge), <<"mkdir", "parse_color">>)
        ELSE IF ~shape.ok
        THEN Outcome(D1, F, Raised(shape), <<"mkdir", "parse_color", "check_shape">>)
        ELSE IF grad_key \notin Range(valid_gradients)
        THEN Outcome(D1, F,
                 Raised(UnknownKey("gradient_style", a.gradient_style,
                                   SetIterationOrder(valid_gradients, seed))),
                 <<"mkdir", "parse_color", "check_shape", "check_gradient">>)
        ELSE IF ~Fits(a.data, ec)
        THEN Outcome(D1, F, Raised(DataOverflow(a.data)),
                 <<"mkdir", "parse_color", "check_shape", "check_gradient", "encode">>)
        ELSE Outcome(D1, saved.files,
                 Returned([saved_path |-> save_path,
                           data |-> Truncate(a.data),
                           style |-> "gradient",
                           gradient_style |-> grad_key,
                           center_color |-> a.center_color,
                           edge_color |-> a.edge_color,
                           bg_color |-> a.bg_color,
                           module_shape |-> shape.key,
                           size |-> size,
                           border |-> border,
                           error_correction |-> Upper(a.error_correction),
                           format |-> output_format]),
                 <<"mkdir", "parse_color", "check_shape", "check_gradient",
                   "encode", "render", "save">>)

\* ------------------------------------------------------------------------
\* The state machine: a process serving generation requests
\* ------------------------------------------------------------------------

\* requests served in one behaviour
MaxCalls == 2

\* readings of the clock that _unique_filename may take
MaxClock == 2

\* hash seeds an interpreter may start with, 0..MaxHashSeed
MaxHashSeed == 1

NoCall == [op |-> "none"]

NoResult == [status |-> "none"]

NoFiles == [p \in {} |-> {}]

\* requests that may be in progress at the same time
MaxWorkers == 2

Idle == [pc |-> "idle", last |-> FALSE]

NoWorkers == [w \in 1..MaxWorkers |-> Idle]

\* every Unknown-key message adds its listing to those seen for (op, field)
Listed(op, res) ==
    IF res.status = "raised" /\ res.msg.kind = "Unknown key"
    THEN {<<op, res.msg.field, res.msg.listing>>}
    ELSE {}

\* what a caller has in hand once its request is served: the call, its
\* result and, if a record was returned, what is in the file at saved_path
Snapshot ==
    [call |-> call, result |-> result,
     written |-> IF result.status = "returned" /\ call.op # "_parse_color"
                 THEN <<files[result.value.saved_path]>> ELSE <<>>]

NoPrevious == [call |-> NoCall, result |-> NoResult, written |-> <<>>]

\* a request is handled: request is what the caller passed, a is what
\* reaches the generator function, whose outcome becomes the new state
Handle(op, request, a, outcome) ==
    /\ calls < MaxCalls
    /\ \E out \in {outcome} :
        /\ call' = [op |-> op, args |-> a, request |-> request]
        /\ dirs' = out.dirs
        /\ files' = out.files
        /\ result' = out.result
        /\ trace' = out.trace
        /\ calls' = calls + 1
        /\ listings' = listings \cup Listed(op, out.result)
    /\ previous' = Snapshot
    /\ UNCHANGED <<config, hashSeed, workers>>

\* a direct call of a generator function: the caller's arguments reach it
Serve(op, a, outcome) == Handle(op, a, a, outcome)

\* A profile I names, for every parameter, the values callers pass.
GenerateBasic(I) ==
    \E data \in I.data, output_dir \in I.output_dir, filename \in I.filename,
       size \in I.size, border \in I.border, fg_color \in I.fg_color,
       bg_color \in I.bg_color, error_correction \in I.error_correction,
       output_format \in I.output_format, now \in 1..MaxClock :
        LET a == [data |-> data, output_dir |-> output_dir, filename |-> filename,
                  size |-> size, border |-> border, fg_color |-> fg_color,
                  bg_color |-> bg_color, error_correction |-> error_correction,
                  output_format |-> output_format]
        IN  Serve("generate_basic", a, generate_basic(a, config, dirs, files, now))

GenerateStyled(I) ==
    \E data \in I.data, output_dir \in I.output_dir, filename \in I.filename,
       size \in I.size, border \in I.border, module_shape \in I.module_shape,
       fg_color \in I.fg_color, bg_color \in I.bg_color,
       gradient_style \in I.gradient_style,
       gradient_center_color \in I.gradient_center_color,
       gradient_edge_color \in I.gradient_edge_color,
       error_correction \in I.error_correction,
       output_format \in I.output_format, now \in 1..MaxClock :
        LET a == [data |-> data, output_dir |-> output_dir, filename |-> filename,
                  size |-> size, border |-> border, module_shape |-> module_shape,
                  fg_color |-> fg_color, bg_color |-> bg_color,
                  gradient_style |-> gradient_style,
                  gradient_center_color |-> gradient_center_color,
                  gradient_edge_color |-> gradient_edge_color,
                  error_correction |-> error_correction,
                  output_format |-> output_format]
        IN  Serve("generate_styled", a, generate_styled(a, config, dirs, files, now))

GenerateWithLogo(I) ==
    \E data \in I.data, logo_path \in I.asset_path, output_dir \in I.output_dir,
       filename \in I.filename, size \in I.size, border \in I.border,
       module_shape \in I.module_shape, fg_color \in I.fg_color,
       bg_color \in I.bg_color, logo_size_ratio \in I.logo_size_ratio,
       error_correction \in I.error_correction,
       output_format \in I.output_format, now \in 1..MaxClock :
        LET a == [data |-> data, logo_path |-> logo_path, output_dir |-> output_dir,
                  filename |-> filename, size |-> size, border |-> border,
                  module_shape |-> module_shape, fg_color |-> fg_color,
                  bg_color |-> bg_color, logo_size_ratio |-> logo_size_ratio,
                  error_correction |-> error_correction,
                  output_format |-> output_format]
        IN  Serve("generate_with_logo", a, generate_with_logo(a, config, dirs, files, now))

GenerateWithBackgroundImage(I) ==
    \E data \in I.data, image_path \in I.asset_path, output_dir \in I.output_dir,
       filename \in I.filename, size \in I.size, border \in I.border,
       module_shape \in I.module_shape, error_correction \in I.error_correction,
       output_format \in I.output_format, now \in 1..MaxClock :
        LET a == [data |-> data, image_path |-> image_path, output_dir |-> output_dir,
                  filename |-> filename, size |-> size, border |-> border,
                  module_shape |-> module_shape,
                  error_correction |-> error_correction,
                  output_format |-> output_format]
        IN  Serve("generate_with_background_image", a,
                  generate_with_background_image(a, config, dirs, files, now))

GenerateTransparent(I) ==
    \E data \in I.data, output_dir \in I.output_dir, filename \in I.filename,
       size \in I.size, border \in I.border, module_shape \in I.module_shape,
       fg_color \in I.fg_color, error_correction \in I.error_correction,
       now \in 1..MaxClock :
        LET a == [data |-> data, output_dir |-> output_dir, filename |-> filename,
                  size |-> size, border |-> border, module_shape |-> module_shape,
                  fg_color |-> fg_color, error_correction |-> error_correction]
        IN  Serve("generate_transparent", a,
                  generate_transparent(a, config, dirs, files, now))

GenerateGradient(I) ==
    \E data \in I.data, output_dir \in I.output_dir, filename \in I.filename,
       size \in I.size, border \in I.border, module_shape \in I.module_shape,
       gradient_style \in I.gradient_style, center_color \in I.center_color,
       edge_color \in I.edge_color, bg_color \in I.bg_color,
       error_correction \in I.error_correction,
       output_format \in I.output_format, now \in 1..MaxClock :
        LET a == [data |-> data, output_dir |-> output_dir, filename |-> filename,
                  size |-> size, border |-> border, module_shape |-> module_shape,
                  gradient_style |-> gradient_style, center_color |-> center_color,
                  edge_color |-> edge_color, bg_color |-> bg_color,
                  error_correction |-> error_correction,
                  output_format |-> output_format]
        IN  Serve("generate_gradient", a,
                  generate_gradient(a, config, dirs, files, now, hashSeed))

\* ------------------------------------------------------------------------
\* server.py: the tool operations.  A tool passes every parameter on, an
\* omitted one with the default of the tool's own signature.
\* ------------------------------------------------------------------------

ToolDefaultSize == 10

ToolDefaultBorder == 2

ToolDefaultFormat == S_png

generate_qr(I) ==
    \E data \in I.data, output_dir \in I.output_dir, filename \in I.filename,
       size \in I.size, border \in I.border, fg_color \in I.fg_color,
       bg_color \in I.bg_color, error_correction \in I.error_correction,
       output_format \in I.output_format, now \in 1..MaxClock :
        LET a == [data |-> data, output_dir |-> output_dir, filename |-> filename,
                  size |-> Given(OrDefault(size, ToolDefaultSize)),
                  border |-> Given(OrDefault(border, ToolDefaultBorder)),
                  fg_color |-> fg_color, bg_color |-> bg_color,
                  error_correction |-> error_correction,
                  output_format |-> Given(OrDefault(output_format, ToolDefaultFormat))]
            request == [output_dir |-> output_dir, size |-> size, border |-> border,
                        output_format |-> output_format]
        IN  Handle("generate_qr", request, a, generate_basic(a, config, dirs, files, now))

generate_styled_qr(I) ==
    \E data \in I.data, module_shape \in I.module_shape,
       output_dir \in I.output_dir, filename \in I.filename,
       size \in I.size, border \in I.border,
       fg_color \in I.fg_color, bg_color \in I.bg_color,
       gradient_style \in I.gradient_style,
       gradient_center_color \in I.gradient_center_color,
       gradient_edge_color \in I.gradient_edge_color,
       error_correction \in I.error_correction,
       output_format \in I.output_format, now \in 1..MaxClock :
        LET a == [data |-> data, output_dir |-> output_dir, filename |-> filename,
                  size |-> Given(OrDefault(size, ToolDefaultSize)),
                  border |-> Given(OrDefault(border, ToolDefaultBorder)),
                  module_shape |-> module_shape,
                  fg_color |-> fg_color, bg_color |-> bg_color,
                  gradient_style |-> gradient_style,
                  gradient_center_color |-> gradient_center_color,
                  gradient_edge_color |-> gradient_edge_color,
                  error_correction |-> error_correction,
                  output_format |-> Given(OrDefault(output_format, ToolDefaultFormat))]
            request == [output_dir |-> output_dir, size |-> size, border |-> border,
                        output_format |-> output_format]
        IN  Handle("generate_styled_qr", request, a, generate_styled(a, config, dirs, files, now))

generate_gradient_qr(I) ==
    \E data \in I.data, gradient_style \in I.gradient_style,
       center_color \in I.center_color, edge_color \in I.edge_color,
       module_shape \in I.module_shape, output_dir \in I.output_dir,
       filename \in I.filename, size \in I.size, border \in I.border,
       bg_color \in I.bg_color, error_correction \in I.error_correction,
       output_format \in I.output_format, now \in 1..MaxClock :
        LET a == [data |-> data, output_dir |-> output_dir, filename |-> filename,
                  size |-> Given(OrDefault(size, ToolDefaultSize)),
                  border |-> Given(OrDefault(border, ToolDefaultBorder)),
                  module_shape |-> module_shape,
                  gradient_style |-> gradient_style, center_color |-> center_color,
                  edge_color |-> edge_color, bg_color |-> bg_color,
                  error_correction |-> error_correction,
                  output_format |-> Given(OrDefault(output_format, ToolDefaultFormat))]
            request == [output_dir |-> output_dir, size |-> size, border |-> border,
                        output_format |-> output_format]
        IN  Handle("generate_gradient_qr", request, a,
                  generate_gradient(a, config, dirs, files, now, hashSeed))

\* the tool has no error_correction parameter: generate_with_logo is called
\* with its own default
generate_logo_qr(I) ==
    \E data \in I.data, logo_path \in I.asset_path, output_dir \in I.output_dir,
       filename \in I.filename, size \in I.size, border \in I.border,
       module_shape \in I.module_shape, fg_color \in I.fg_color,
       bg_color \in I.bg_color, logo_size_ratio \in I.logo_size_ratio,
       output_format \in I.output_format, now \in 1..MaxClock :
        LET a == [data |-> data, logo_path |-> logo_path, output_dir |-> output_dir,
                  filename |-> filename,
                  size |-> Given(OrDefault(size, ToolDefaultSize)),
                  border |-> Given(OrDefault(border, ToolDefaultBorder)),
                  module_shape |-> module_shape, fg_color |-> fg_color,
                  bg_color |-> bg_color, logo_size_ratio |-> logo_size_ratio,
                  error_correction |-> <<"H">>,
                  output_format |-> Given(OrDefault(output_format, ToolDefaultFormat))]
            request == [output_dir |-> output_dir, size |-> size, border |-> border,
                        output_format |-> output_format]
        IN  Handle("generate_logo_qr", request, a, generate_with_logo(a, config, dirs, files, now))

generate_image_qr(I) ==
    \E data \in I.data, image_path \in I.asset_path, output_dir \in I.output_dir,
       filename \in I.filename, size \in I.size, border \in I.border,
       module_shape \in I.module_shape, error_correction \in I.error_correction,
       output_format \in I.output_format, now \in 1..MaxClock :
        LET a == [data |-> data, image_path |-> image_path, output_dir |-> output_dir,
                  filename |-> filename,
                  size |-> Given(OrDefault(size, ToolDefaultSize)),
                  border |-> Given(OrDefault(border, ToolDefaultBorder)),
                  module_shape |-> module_shape,
                  error_correction |-> error_correction,
                  output_format |-> Given(OrDefault(output_format, ToolDefaultFormat))]
            request == [output_dir |-> output_dir, size |-> size, border |-> border,
                        output_format |-> output_format]
        IN  Handle("generate_image_qr", request, a,
                  generate_with_background_image(a, config, dirs, files, now))

generate_transparent_qr(I) ==
    \E data \in I.data, output_dir \in I.output_dir, filename \in I.filename,
       size \in I.size, border \in I.border, module_shape \in I.module_shape,
       fg_color \in I.fg_color, error_correction \in I.error_correction,
       now \in 1..MaxClock :
        LET a == [data |-> data, output_dir |-> output_dir, filename |-> filename,
                  size |-> Given(OrDefault(size, ToolDefaultSize)),
                  border |-> Given(OrDefault(border, ToolDefaultBorder)),
                  module_shape |-> module_shape,
                  fg_color |-> fg_color, error_correction |-> error_correction]
            request == [output_dir |-> output_dir, size |-> size, border |-> border]
        IN  Handle("generate_transparent_qr", request, a,
                  generate_transparent(a, config, dirs, files, now))

\* the server process is stopped and started again (run): the new
\* interpreter has a new hash seed; the filesystem stays
Restart ==
    /\ \E seed \in 0..MaxHashSeed : seed # hashSeed /\ hashSeed' = seed
    /\ UNCHANGED <<config, dirs, files, call, result, trace, calls, listings,
                   previous, workers>>

\* ------------------------------------------------------------------------
\* Specifications.  All share the actions; each draws the arguments from
\* the values its claims are about.
\* ------------------------------------------------------------------------

Digits == <<"0","1","2","3","4","5","6","7","8","9">>

\* a payload of n characters, no two neighbours alike
Payload(n) == [i \in 1..n |-> Digits[(i % 10) + 1]]

\* how far past TruncLen the payloads go
MaxExtra == 1

S_invalid_color == <<"#","G","G","0","0","0","0">>

S_star == <<"s","t","a","r">>

\* the configuration a process may have loaded from pyproject.toml
Configs(formats) ==
    [default_size : {10}, default_border : {2}, default_format : formats,
     output_dir : {"Downloads"}]

\* the arguments of a call that leaves everything at the signature's default
Defaults ==
    [data |-> {Payload(2)}, output_dir |-> {None}, filename |-> {None},
     size |-> {Omitted}, border |-> {Omitted},
     fg_color |-> {S_black}, bg_color |-> {S_white},
     error_correction |-> {<<"H">>}, output_format |-> {Omitted},
     module_shape |-> {S_square}, gradient_style |-> {S_radial},
     gradient_center_color |-> {<<>>}, gradient_edge_color |-> {<<>>},
     center_color |-> {S_red}, edge_color |-> {S_blue},
     asset_path |-> {"logo"}, logo_size_ratio |-> {30}]

InitWith(configs, dirs0) ==
    /\ config \in configs
    /\ hashSeed \in 0..MaxHashSeed
    /\ dirs \in dirs0
    /\ files = NoFiles
    /\ call = NoCall
    /\ result = NoResult
    /\ trace = <<>>
    /\ calls = 0
    /\ listings = {}
    /\ previous = NoPrevious
    /\ workers = NoWorkers

NextWith(I, T) ==
    \/ GenerateBasic(I)
    \/ GenerateStyled(I)
    \/ GenerateGradient(I)
    \/ GenerateWithLogo(I)
    \/ GenerateWithBackgroundImage(I)
    \/ GenerateTransparent(I)
    \/ generate_qr(T)
    \/ generate_styled_qr(T)
    \/ generate_gradient_qr(T)
    \/ generate_logo_qr(T)
    \/ generate_image_qr(T)
    \/ generate_transparent_qr(T)
    \/ Restart

\* Spec: payload lengths around TruncLen, named and generated files, both
\* configured default formats
MainInputs ==
    [Defaults EXCEPT
        !.data = {Payload(n) : n \in {0, 2, TruncLen} \cup (TruncLen + 1)..(TruncLen + MaxExtra)},
        !.filename = {None, "a"}]

MainToolInputs ==
    [Defaults EXCEPT
        !.data = {Payload(2), Payload(TruncLen + MaxExtra)},
        !.filename = {None, "a"},
        !.output_format = {Omitted, Given(S_svg)}]

Init == InitWith(Configs({S_png, S_svg}), {{"Downloads"}})

Next == NextWith(MainInputs, MainToolInputs)

Spec == Init /\ [][Next]_vars

\* ------------------------------------------------------------------------
\* SpecColor: _parse_color applied to every colour string within the bounds
\* ------------------------------------------------------------------------

\* hex digits of both cases, a sign, a blank
ColorAlphabet == {"0", "a", "F", "+", " "}

Hashes(k) == [i \in 1..k |-> "#"]

ColorStrings ==
    {Hashes(k) \o body :
        k \in 0..MaxHashes,
        body \in UNION {[1..n -> ColorAlphabet] : n \in 0..MaxColorLen}}

InitColor ==
    /\ config \in Configs({S_png})
    /\ hashSeed = 0
    /\ dirs = {}
    /\ files = NoFiles
    /\ call \in {[op |-> "_parse_color", args |-> [color |-> c]] : c \in ColorStrings}
    /\ result = NoResult
    /\ trace = <<>>
    /\ calls = 0
    /\ listings = {}
    /\ previous = NoPrevious
    /\ workers = NoWorkers

ParseColor ==
    /\ call.op = "_parse_color"
    /\ result = NoResult
    /\ \E parsed \in {_parse_color(call.args.color)} :
        result' = IF parsed.ok THEN Returned(parsed.rgb) ELSE Raised(parsed)
    /\ trace' = <<"parse_color">>
    /\ calls' = calls + 1
    /\ UNCHANGED <<config, hashSeed, dirs, files, call, listings, previous, workers>>

SpecColor == InitColor /\ [][ParseColor]_vars

\* the colour of the call, one leading '#' removed if there is one
Unhashed(c) == IF c # <<>> /\ Head(c) = "#" THEN Tail(c) ELSE c

AllHex(s) == \A i \in 1..Len(s) : s[i] \in HexDigits

PairValue(s, i) == 16 * HexValue(s[i]) + HexValue(s[i + 1])

ColorParsed == call.op = "_parse_color" /\ result # NoResult

\* C4: for a colour of 6 hex digits, with or without a leading '#',
\* _parse_color returns the three pairs decoded as hexadecimal, each in
\* 0..255; for a colour of 3 hex digits it returns what it returns for the
\* 6 digits got by writing each digit twice.
C4_ParseValidHex ==
    ColorParsed =>
        LET s == Unhashed(call.args.color)
            d == IF Len(s) = 3 THEN <<s[1], s[1], s[2], s[2], s[3], s[3]>> ELSE s
        IN  (AllHex(s) /\ Len(s) \in {3, 6}) =>
                /\ result.status = "returned"
                /\ result.value = <<PairValue(d, 1), PairValue(d, 3), PairValue(d, 5)>>
                /\ \A i \in 1..3 : result.value[i] \in 0..255

\* C4 witness: the shorthand #F0a has been parsed to (255, 0, 170)
C4_Witness ==
    /\ ColorParsed
    /\ call.args.color = <<"#", "F", "0", "a">>
    /\ result.status = "returned"
    /\ result.value = <<255, 0, 170>>

\* C5 as claimed: a colour that, one leading '#' removed, has a length other
\* than 3 or 6 or holds a character that is no hex digit, is refused with
\* ValueError and no triple is returned.
C5_InvalidColorRefused ==
    ColorParsed =>
        LET s == Unhashed(call.args.color)
        IN  (Len(s) \notin {3, 6} \/ ~AllHex(s)) =>
                result.status = "raised" /\ result.exc = "ValueError"

\* ------------------------------------------------------------------------
\* Claims checked under Spec
\* ------------------------------------------------------------------------

BasicOps == {"generate_basic", "generate_qr"}

StyledOps == {"generate_styled", "generate_styled_qr"}

GradientOps == {"generate_gradient", "generate_gradient_qr"}

LogoOps == {"generate_with_logo", "generate_logo_qr"}

ImageOps == {"generate_with_background_image", "generate_image_qr"}

TransparentOps == {"generate_transparent", "generate_transparent_qr"}

GenerationOps ==
    BasicOps \cup StyledOps \cup GradientOps \cup LogoOps \cup ImageOps \cup TransparentOps

\* the last call was one of ops and returned a record
ReturnedFrom(ops) == call.op \in ops /\ result.status = "returned"

\* the last call was one of ops and raised
RaisedFrom(ops) == call.op \in ops /\ result.status = "raised"

\* C7: a transparent call that returns has written a PNG: the saved path
\* ends in .png, the file at that path holds PNG data, and the record's
\* format is "png", whatever the configured default format is.
C7_TransparentAlwaysPng ==
    ReturnedFrom(TransparentOps) =>
        /\ result.value.saved_path.ext = <<"p", "n", "g">>
        /\ result.value.format = <<"p", "n", "g">>
        /\ result.value.saved_path \in DOMAIN files
        /\ files[result.value.saved_path].codec = "PNG"

\* C7 witness: with svg the configured default, a transparent call with an
\* explicit filename has returned
C7_Witness ==
    /\ ReturnedFrom(TransparentOps)
    /\ config.default_format = S_svg
    /\ call.args.filename = "a"
    /\ result.value.saved_path.filename = "a"

\* C8: the data field of every returned record is the first
\* min(len(payload), 200) characters of the payload: at most 200 characters,
\* and the payload itself when that has at most 200.
C8_DataTruncated ==
    ReturnedFrom(GenerationOps) =>
        LET payload == call.args.data
            n == IF Len(payload) < 200 THEN Len(payload) ELSE 200
        IN  /\ Len(result.value.data) = n
            /\ \A i \in 1..n : result.value.data[i] = payload[i]
            /\ Len(payload) <= 200 => result.value.data = payload

\* C8 witness: a payload longer than 200 characters came back cut to 200
C8_Witness ==
    /\ ReturnedFrom(GenerationOps)
    /\ Len(call.args.data) > 200
    /\ Len(result.value.data) = 200

\* ------------------------------------------------------------------------
\* SpecOptions: error-correction levels and output formats, valid and not
\* ------------------------------------------------------------------------

S_bmp == <<"b","m","p">>

OptionInputs ==
    [Defaults EXCEPT
        !.error_correction = {<<"L">>, <<"q">>, <<"X">>},
        !.output_format = {Omitted, Given(S_bmp)}]

OptionToolInputs ==
    [Defaults EXCEPT
        !.error_correction = {<<"M">>, <<"X">>},
        !.output_format = {Omitted, Given(S_bmp)}]

InitOptions == InitWith(Configs({S_png}), {{"Downloads"}})

NextOptions == NextWith(OptionInputs, OptionToolInputs)

SpecOptions == InitOptions /\ [][NextOptions]_vars

\* C1: a logo call that returns has encoded the symbol at level H and echoes
\* error_correction "H", whatever level the caller named.
C1_LogoForcesH ==
    ReturnedFrom(LogoOps) =>
        /\ result.value.error_correction = <<"H">>
        /\ result.value.saved_path \in DOMAIN files
        /\ files[result.value.saved_path].image.qr.ec = <<"H">>

\* C1 witness: a logo call that asked for level L has returned
C1_Witness ==
    /\ ReturnedFrom(LogoOps)
    /\ call.args.error_correction = <<"L">>

\* C3 as claimed: a call whose error_correction is none of L, M, Q, H, or
\* whose output_format is none of png, svg (letter case aside), raises the
\* unsupported-option error and returns no record.  The logo operation,
\* which ignores error_correction, is left out of the first half; the
\* transparent operation has no output_format.
C3_UnknownOptionRefused ==
    LET badLevel == /\ call.op \in GenerationOps \ LogoOps
                    /\ Upper(call.args.error_correction)
                           \notin {<<"L">>, <<"M">>, <<"Q">>, <<"H">>}
        badFormat == /\ call.op \in GenerationOps \ TransparentOps
                     /\ Lower(OrDefault(call.args.output_format, config.default_format))
                            \notin {<<"p","n","g">>, <<"s","v","g">>}
    IN  (badLevel \/ badFormat) =>
            /\ result.status = "raised"
            /\ result.exc = "ValueError"
            /\ result.msg.kind = "Unknown key"

\* ------------------------------------------------------------------------
\* SpecKeys: module shapes and fill modes, valid and not
\* ------------------------------------------------------------------------

S_spiral == <<"s","p","i","r","a","l">>

KeyInputs ==
    [Defaults EXCEPT
        !.module_shape = {S_square, <<"C","i","r","c","l","e">>, S_star},
        !.gradient_style = {S_solid, S_radial, S_spiral}]

KeyToolInputs ==
    [Defaults EXCEPT
        !.module_shape = {S_rounded, S_star},
        !.gradient_style = {S_solid, S_vertical, S_spiral}]

InitKeys == InitWith(Configs({S_png}), {{"Downloads"}})

NextKeys == NextWith(KeyInputs, KeyToolInputs)

SpecKeys == InitKeys /\ [][NextKeys]_vars

HasShape == GenerationOps \ BasicOps

HasFill == StyledOps \cup GradientOps

\* the fill modes an operation accepts
ValidFills(op) ==
    IF op \in GradientOps
    THEN {<<"r","a","d","i","a","l">>, <<"s","q","u","a","r","e">>,
          <<"h","o","r","i","z","o","n","t","a","l">>, <<"v","e","r","t","i","c","a","l">>}
    ELSE {<<"s","o","l","i","d">>, <<"r","a","d","i","a","l">>, <<"s","q","u","a","r","e">>,
          <<"h","o","r","i","z","o","n","t","a","l">>, <<"v","e","r","t","i","c","a","l">>}

ValidShapes ==
    {<<"s","q","u","a","r","e">>, <<"g","a","p","p","e","d">>, <<"c","i","r","c","l","e">>,
     <<"r","o","u","n","d","e","d">>, <<"v","e","r","t","i","c","a","l","_","b","a","r","s">>,
     <<"h","o","r","i","z","o","n","t","a","l","_","b","a","r","s">>}

UnknownKeyError(field, valid) ==
    /\ result.status = "raised"
    /\ result.exc = "ValueError"
    /\ result.msg.kind = "Unknown key"
    /\ result.msg.field = field
    /\ Range(result.msg.listing) = valid
    /\ Len(result.msg.listing) = Cardinality(valid)

\* C2 as claimed: with every other argument valid, a module_shape or a fill
\* mode outside the valid set of its operation raises the unsupported-option
\* error naming the field and listing every valid key (so "solid" is refused
\* by the gradient operation), and the listing of a field of an operation
\* is in the same order in every message.
C2_UnknownKeyListing ==
    /\ (call.op \in HasShape /\ Lower(call.args.module_shape) \notin ValidShapes)
          => UnknownKeyError("module_shape", ValidShapes)
    /\ (/\ call.op \in HasFill
        /\ Lower(call.args.module_shape) \in ValidShapes
        /\ Lower(call.args.gradient_style) \notin ValidFills(call.op))
          => UnknownKeyError("gradient_style", ValidFills(call.op))
    /\ \A x \in listings, y \in listings :
          (x[1] = y[1] /\ x[2] = y[2]) => x[3] = y[3]

\* ------------------------------------------------------------------------
\* SpecFs: output directories that exist or not, arguments that fail
\* validation, asset paths of every kind
\* ------------------------------------------------------------------------

FsInputs ==
    [Defaults EXCEPT
        !.output_dir = {None, "out"},
        !.fg_color = {S_black, S_invalid_color},
        !.module_shape = {S_square, S_star},
        !.asset_path = {"missing", "folder", "notes", "logo"}]

FsToolInputs ==
    [Defaults EXCEPT
        !.fg_color = {S_black, S_invalid_color},
        !.asset_path = {"missing", "notes", "logo"}]

\* the configured output directory may not exist yet
InitFs == InitWith(Configs({S_png}), {{}, {"Downloads"}})

NextFs == NextWith(FsInputs, FsToolInputs)

SpecFs == InitFs /\ [][NextFs]_vars

\* the errors of the validation of colours, module shape, fill mode and
\* asset path
ValidationFailure(res) ==
    /\ res.status = "raised"
    /\ \/ res.exc = "FileNotFoundError"
       \/ res.exc = "ValueError" /\
          res.msg.kind \in {"Invalid color", "invalid literal for int()", "Unknown key"}

\* C9 as claimed: a call that fails validation leaves the filesystem as it
\* was before the call: no output file, no newly created output directory,
\* and nothing was encoded or rendered.
C9_ValidationBeforeMutation ==
    [][(calls' = calls + 1 /\ ValidationFailure(result'))
          => /\ dirs' = dirs
             /\ files' = files
             /\ \A i \in 1..Len(trace') : trace'[i] \notin {"encode", "render", "save"}]_vars

AssetOps == LogoOps \cup ImageOps

\* the asset path of a logo or image-sampled call
AssetPath ==
    IF call.op \in LogoOps THEN call.args.logo_path ELSE call.args.image_path

\* the arguments of the call other than the asset path pass validation
OtherArgumentsValid ==
    /\ Lower(call.args.module_shape) \in ValidShapes
    /\ call.op \in LogoOps => /\ _parse_color(call.args.fg_color).ok
                              /\ _parse_color(call.args.bg_color).ok

\* C10 as claimed: a logo or image-sampled call whose asset path is missing,
\* is not a regular file, or is a file that is no image raises the
\* asset-not-found error before anything is encoded or rendered, and
\* writes no file.
C10_UnreadableAssetRefused ==
    (/\ call.op \in AssetOps
     /\ OtherArgumentsValid
     /\ ~ Assets[AssetPath].is_image)
        => /\ result.status = "raised"
           /\ result.exc = "FileNotFoundError"
           /\ \A i \in 1..Len(trace) : trace[i] \notin {"encode", "render", "save"}

\* ------------------------------------------------------------------------
\* SpecPixels: foreground colours on both sides of the white threshold
\* ------------------------------------------------------------------------

Grey(hi, lo) == <<"#", hi, lo, hi, lo, hi, lo>>

\* (241, 240, 241): two channels above the threshold, one on it
S_near_white == <<"#","F","1","F","0","F","1">>

PixelInputs ==
    [Defaults EXCEPT
        !.fg_color = {S_black, Grey("F","0"), Grey("F","1"), Grey("E","3"), S_near_white},
        !.module_shape = {S_square, S_circle}]

PixelToolInputs ==
    [Defaults EXCEPT
        !.fg_color = {S_black, S_near_white},
        !.module_shape = {S_square, S_circle}]

InitPixels == InitWith(Configs({S_png}), {{"Downloads"}})

NextPixels == NextWith(PixelInputs, PixelToolInputs)

SpecPixels == InitPixels /\ [][NextPixels]_vars

\* the image in the file the last call returned the path of
SavedImage == files[result.value.saved_path].image

AllAbove(px, threshold) ==
    px[1] > threshold /\ px[2] > threshold /\ px[3] > threshold

\* C6: in the image the transparent operation saves, every pixel has the
\* R, G and B of the same pixel of the white-background rendering, and its
\* alpha is 0 if those three are all greater than 240 and 255 otherwise,
\* whatever the other pixels are.
C6_WhiteBecomesTransparent ==
    ReturnedFrom(TransparentOps) =>
        LET rendering == TransparentRendering(call.args, config)
        IN  /\ SavedImage.mode = "RGBA"
            /\ Len(SavedImage.px) = Len(rendering.px)
            /\ \A i \in 1..Len(rendering.px) :
                  /\ SubSeq(SavedImage.px[i], 1, 3) = SubSeq(rendering.px[i], 1, 3)
                  /\ SavedImage.px[i][4] =
                        IF AllAbove(rendering.px[i], 240) THEN 0 ELSE 255

\* a transparent image with an opaque pixel that has channels above the
\* threshold and one on it, next to transparent pixels
C6_Witness ==
    /\ ReturnedFrom(TransparentOps)
    /\ \E i \in 1..Len(SavedImage.px) : SavedImage.px[i] = <<241, 240, 241, 255>>
    /\ \E i \in 1..Len(SavedImage.px) : SavedImage.px[i] = <<248, 247, 248, 0>>
    /\ \E i \in 1..Len(SavedImage.px) : SavedImage.px[i] = <<255, 255, 255, 0>>

\* ------------------------------------------------------------------------
\* SpecConfig: a stock and a customised [tool.qrcode-mcp] table, callers
\* that omit or supply size, border, format and directory
\* ------------------------------------------------------------------------

\* default_size = 12, default_border = 4, default_format = "svg",
\* output_dir = "cfg" in pyproject.toml
CustomConfig ==
    [default_size |-> 12, default_border |-> 4, default_format |-> S_svg,
     output_dir |-> "cfg"]

StockConfig ==
    [default_size |-> 10, default_border |-> 2, default_format |-> S_png,
     output_dir |-> "Downloads"]

ConfigInputs ==
    [Defaults EXCEPT
        !.output_dir = {None, "out"},
        !.filename = {"a"},
        !.size = {Omitted, Given(5)},
        !.border = {Omitted, Given(1)},
        !.output_format = {Omitted, Given(S_png)}]

ConfigToolInputs ==
    [Defaults EXCEPT
        !.output_dir = {None, "out"},
        !.filename = {"a"},
        !.size = {Omitted, Given(5)},
        !.output_format = {Omitted, Given(S_png)}]

InitConfig == InitWith({StockConfig, CustomConfig}, {{"Downloads", "cfg"}})

NextConfig == NextWith(ConfigInputs, ConfigToolInputs)

SpecConfig == InitConfig /\ [][NextConfig]_vars

\* the image in the file at the path the last call returned
SavedFile == files[result.value.saved_path]

\* C11 as claimed: in every returned generation call, direct or through a
\* tool, each of size, border, output format and output directory is the
\* configured default when the caller omitted it and the caller's value
\* when supplied, both in the record and in the file written.
C11_OmittedTakesConfig ==
    ReturnedFrom(GenerationOps) =>
        /\ result.value.size = OrDefault(call.request.size, config.default_size)
        /\ SavedFile.image.qr.box_size = result.value.size
        /\ result.value.border = OrDefault(call.request.border, config.default_border)
        /\ SavedFile.image.qr.border = result.value.border
        /\ "output_format" \in DOMAIN call.request =>
              /\ result.value.format =
                    OrDefault(call.request.output_format, config.default_format)
              /\ result.value.saved_path.ext = result.value.format
        /\ result.value.saved_path.dir =
              IF call.request.output_dir = None THEN config.output_dir
              ELSE call.request.output_dir

\* ------------------------------------------------------------------------
\* SpecCase: valid keys of the four catalogs in lower and upper case
\* ------------------------------------------------------------------------

S_PNG == <<"P","N","G">>

CaseInputs ==
    [Defaults EXCEPT
        !.module_shape = {S_circle, Upper(S_circle)},
        !.gradient_style = {S_radial, Upper(S_radial)},
        !.error_correction = {<<"Q">>, <<"q">>},
        !.output_format = {Given(S_png), Given(S_PNG)}]

CaseToolInputs ==
    [Defaults EXCEPT
        !.module_shape = {S_circle, Upper(S_circle)},
        !.output_format = {Given(S_png), Given(S_PNG)}]

InitCase == InitWith(Configs({S_png}), {{"Downloads"}})

NextCase == NextWith(CaseInputs, CaseToolInputs)

SpecCase == InitCase /\ [][NextCase]_vars

HasFormat == GenerationOps \ TransparentOps

HasLevel == GenerationOps \ LogoOps

\* every catalog key of the call is a valid key of its catalog in some
\* letter case
KeysValidModuloCase ==
    /\ call.op \in HasShape => Lower(call.args.module_shape) \in ValidShapes
    /\ call.op \in HasFill => Lower(call.args.gradient_style) \in ValidFills(call.op)
    /\ call.op \in HasLevel =>
          Upper(call.args.error_correction) \in {<<"L">>, <<"M">>, <<"Q">>, <<"H">>}
    /\ (call.op \in HasFormat /\ call.args.output_format # Omitted) =>
          Lower(call.args.output_format[1]) \in {S_png, S_svg}

\* C12 as claimed: a call whose catalog keys are valid in some letter case
\* succeeds, and what it renders, the extension of the file it writes and
\* the module_shape, gradient_style, error_correction and format of its
\* record are those of the canonical spelling of the keys, so that two
\* calls that differ in letter case only cannot be told apart.
C12_KeysIgnoreCase ==
    (call.op \in GenerationOps /\ KeysValidModuloCase) =>
        /\ result.status = "returned"
        /\ call.op \in HasShape =>
              /\ result.value.module_shape = Lower(call.args.module_shape)
              /\ SavedFile.image.drawer = Lower(call.args.module_shape)
        /\ call.op \in HasFill =>
              /\ result.value.gradient_style = Lower(call.args.gradient_style)
              /\ SavedFile.image.mask = Lower(call.args.gradient_style)
        /\ call.op \in HasLevel =>
              /\ result.value.error_correction = Upper(call.args.error_correction)
              /\ SavedFile.image.qr.ec = Upper(call.args.error_correction)
        /\ (call.op \in HasFormat /\ call.args.output_format # Omitted) =>
              /\ result.value.format = Lower(call.args.output_format[1])
              /\ result.value.saved_path.ext = Lower(call.args.output_format[1])

\* ------------------------------------------------------------------------
\* SpecFormat: both supported output formats, named and generated files
\* ------------------------------------------------------------------------

FormatInputs ==
    [Defaults EXCEPT
        !.filename = {None, "a"},
        !.output_format = {Given(S_png), Given(S_svg)}]

FormatToolInputs ==
    [Defaults EXCEPT
        !.output_format = {Omitted, Given(S_svg)}]

InitFormat == InitWith(Configs({S_png}), {{"Downloads"}})

NextFormat == NextWith(FormatInputs, FormatToolInputs)

SpecFormat == InitFormat /\ [][NextFormat]_vars

\* the encoding a format key names
FormatEncoding(format) ==
    CASE format = S_svg -> "SVG"
      [] format = S_png -> "PNG"
      [] OTHER -> "unknown"

\* C13 as claimed: the bytes at the saved path of a returned call are in
\* the encoding the record's format names: a vector document for svg, a
\* raster PNG for png.
C13_BytesMatchFormat ==
    ReturnedFrom(GenerationOps) =>
        SavedFile.codec = FormatEncoding(result.value.format)

\* ------------------------------------------------------------------------
\* Repeated calls (checked under Spec)
\* ------------------------------------------------------------------------

\* the call repeats the one served before it, which returned a record
RepeatsPrevious ==
    /\ call.op \in GenerationOps
    /\ previous.call.op = call.op
    /\ previous.call.args = call.args
    /\ previous.result.status = "returned"

MaxChunks == 2

ConcurrentInputs ==
    [Defaults EXCEPT
        !.data = {Payload(2), Payload(3)},
        !.filename = {None, "a"}]

\* piece i of an encoded image
Chunk(i, content) == [part |-> i, of |-> content]

\* what a write past the end of a file leaves in between
Hole == [part |-> 0]

Complete(content) == [i \in 1..MaxChunks |-> Chunk(i, content)]

\* write(piece) at position k of the file
WriteAt(old, k, piece) ==
    [i \in 1..Max(Len(old), k) |->
        IF i = k THEN piece ELSE IF i <= Len(old) THEN old[i] ELSE Hole]

BasicRequests(I) ==
    {[op |-> "generate_basic",
      args |-> [data |-> data, output_dir |-> output_dir, filename |-> filename,
                size |-> size, border |-> border, fg_color |-> fg_color,
                bg_color |-> bg_color, error_correction |-> error_correction,
                output_format |-> output_format]] :
        data \in I.data, output_dir \in I.output_dir, filename \in I.filename,
        size \in I.size, border \in I.border, fg_color \in I.fg_color,
        bg_color \in I.bg_color, error_correction \in I.error_correction,
        output_format \in I.output_format}

LogoRequests(I) ==
    {[op |-> "generate_with_logo",
      args |-> [data |-> data, logo_path |-> logo_path, output_dir |-> output_dir,
                filename |-> filename, size |-> size, border |-> border,
                module_shape |-> module_shape, fg_color |-> fg_color,
                bg_color |-> bg_color, logo_size_ratio |-> logo_size_ratio,
                error_correction |-> error_correction,
                output_format |-> output_format]] :
        data \in I.data, logo_path \in I.asset_path, output_dir \in I.output_dir,
        filename \in I.filename, size \in I.size, border \in I.border,
        module_shape \in I.module_shape, fg_color \in I.fg_color,
        bg_color \in I.bg_color, logo_size_ratio \in I.logo_size_ratio,
        error_correction \in I.error_correction,
        output_format \in I.output_format}

\* the function run on its own, from the directories there are
Alone(c, now) ==
    IF c.op = "generate_basic"
    THEN generate_basic(c.args, config, dirs, NoFiles, now)
    ELSE generate_with_logo(c.args, config, dirs, NoFiles, now)

\* a request arrives; the function runs up to its save_path
Begin(w, I) ==
    /\ workers[w].pc = "idle"
    /\ calls < MaxCalls
    /\ \E c \in BasicRequests(I) \cup LogoRequests(I), now \in 1..MaxClock :
        \E out \in {Alone(c, now)} :
            /\ dirs' = out.dirs
            /\ workers' = [workers EXCEPT ![w] =
                  IF out.result.status = "returned"
                  THEN [pc |-> "open", call |-> c, result |-> out.result,
                        content |-> out.files[out.result.value.saved_path],
                        written |-> 0, last |-> FALSE]
                  ELSE [pc |-> "done", call |-> c, result |-> out.result,
                        last |-> FALSE]]
    /\ calls' = calls + 1
    /\ UNCHANGED <<config, hashSeed, files, call, result, trace, listings, previous>>

\* img.save(str(save_path)): open(path, "w+b") creates or truncates the file
Open(w) ==
    /\ workers[w].pc = "open"
    /\ files' = WriteFile(files, workers[w].result.value.saved_path, <<>>)
    /\ workers' = [workers EXCEPT ![w].pc = "write"]
    /\ UNCHANGED <<config, hashSeed, dirs, call, result, trace, calls, listings,
                   previous>>

\* the encoder writes its next piece at the position of this writer; last
\* marks the request that wrote most recently
Write(w) ==
    /\ workers[w].pc = "write"
    /\ LET path == workers[w].result.value.saved_path
           k == workers[w].written + 1
       IN  /\ files' = WriteFile(files, path,
                                 WriteAt(files[path], k, Chunk(k, workers[w].content)))
           /\ workers' = [v \in DOMAIN workers |->
                 IF v = w
                 THEN [workers[v] EXCEPT !.written = k, !.last = TRUE,
                          !.pc = IF k = MaxChunks THEN "return" ELSE "write"]
                 ELSE [workers[v] EXCEPT !.last = FALSE]]
    /\ UNCHANGED <<config, hashSeed, dirs, call, result, trace, calls, listings,
                   previous>>

\* the file is closed and the record returned
Return(w) ==
    /\ workers[w].pc = "return"
    /\ workers' = [workers EXCEPT ![w].pc = "done"]
    /\ UNCHANGED <<config, hashSeed, dirs, files, call, result, trace, calls,
                   listings, previous>>

InitConcurrent == InitWith(Configs({S_png}), {{"Downloads"}})

NextConcurrent ==
    \E w \in 1..MaxWorkers :
        \/ Begin(w, ConcurrentInputs)
        \/ Open(w)
        \/ Write(w)
        \/ Return(w)

SpecConcurrent == InitConcurrent /\ [][NextConcurrent]_vars

Served == {w \in DOMAIN workers : workers[w].pc = "done"}

\* no request is in progress
Quiet == \A w \in DOMAIN workers : workers[w].pc \in {"idle", "done"}

PathOf(w) == workers[w].result.value.saved_path

\* C15 as claimed: once two requests that ran side by side are both
\* served, both have returned a record; a request whose saved path no
\* other request had has its own complete image in its file; and when
\* both wrote to the same path, named by the same explicit filename, the
\* file is the complete image of the one that wrote last.
C15_ConcurrentRequests ==
    (Quiet /\ Cardinality(Served) = 2) =>
        /\ \A w \in Served : workers[w].result.status = "returned"
        /\ \A w \in Served :
              (\A v \in Served \ {w} : PathOf(v) # PathOf(w))
                  => files[PathOf(w)] = Complete(workers[w].content)
        /\ \A w \in Served :
              (/\ \E v \in Served \ {w} : PathOf(v) = PathOf(w)
               /\ Truthy(workers[w].call.args.filename)
               /\ workers[w].last)
                  => files[PathOf(w)] = Complete(workers[w].content)

\* ------------------------------------------------------------------------
\* SpecStages: calls that fail at each stage, and calls that succeed
\* ------------------------------------------------------------------------

\* how far past the capacity of the largest symbol the payloads go
MaxOverflow == 1

StageInputs ==
    [Defaults EXCEPT
        !.data = {Payload(2)} \cup
                 {Payload(Capacity(<<"H">>) + n) : n \in 1..MaxOverflow},
        !.filename = {None, "a"},
        !.asset_path = {"missing", "notes", "logo"},
        !.output_format = {Omitted, Given(S_svg)}]

StageToolInputs ==
    [Defaults EXCEPT
        !.data = {Payload(2)} \cup
                 {Payload(Capacity(<<"H">>) + n) : n \in 1..MaxOverflow}]

InitStages == InitWith(Configs({S_png}), {{"Downloads"}})

NextStages == NextWith(StageInputs, StageToolInputs)

SpecStages == InitStages /\ [][NextStages]_vars

Positions(t, stage) == {i \in 1..Len(t) : t[i] = stage}

\* no stage of the pipeline ran twice, and those that ran ran in the order
\* encode, render, overlay, save
PipelineInOrder(t) ==
    LET pipeline == <<"encode", "render", "overlay", "save">>
    IN  /\ \A k \in 1..4 : Cardinality(Positions(t, pipeline[k])) <= 1
        /\ \A k \in 1..4, m \in 1..4 :
              k < m => \A i \in Positions(t, pipeline[k]),
                          j \in Positions(t, pipeline[m]) : i < j

\* C16: the stages of a call run in the order encode, render, overlay,
\* save.  A call that returns has encoded, rendered and, as its last
\* stage, saved: the file at saved_path is written and no other file
\* changes.  A call that raises, at whatever stage, leaves every file as
\* it was.
C16_StagesInOrder ==
    [][(calls' = calls + 1 /\ call'.op \in GenerationOps) =>
          /\ PipelineInOrder(trace')
          /\ IF result'.status = "returned"
             THEN /\ Positions(trace', "encode") # {}
                  /\ Positions(trace', "render") # {}
                  /\ Positions(trace', "save") = {Len(trace')}
                  /\ result'.value.saved_path \in DOMAIN files'
                  /\ DOMAIN files' = DOMAIN files \cup {result'.value.saved_path}
                  /\ \A p \in DOMAIN files \ {result'.value.saved_path} :
                        files'[p] = files[p]
             ELSE files' = files]_vars

\* a logo call has returned and left its one file; the next call, with a
\* payload past the capacity, was refused by the encoder and the file is
\* still the only one
C16_Witness ==
    /\ calls = 2
    /\ previous.call.op \in LogoOps
    /\ previous.result.status = "returned"
    /\ call.op \in GenerationOps
    /\ result.status = "raised"
    /\ result.exc = "DataOverflowError"
    /\ Positions(trace, "encode") # {}
    /\ Positions(trace, "save") = {}
    /\ DOMAIN files = {previous.result.value.saved_path}

\* ------------------------------------------------------------------------
\* SpecColors: valid and invalid colours in every colour field, solid and
\* gradient fills
\* ------------------------------------------------------------------------

ColorInputs ==
    [Defaults EXCEPT
        !.fg_color = {S_black, S_invalid_color},
        !.bg_color = {S_white, S_invalid_color},
        !.gradient_style = {S_solid, S_radial},
        !.gradient_center_color = {<<>>, S_red, S_invalid_color},
        !.gradient_edge_color = {<<>>, S_invalid_color},
        !.center_color = {S_red, S_invalid_color},
        !.edge_color = {S_blue, S_invalid_color}]

ColorToolInputs ==
    [Defaults EXCEPT
        !.fg_color = {S_black, S_invalid_color},
        !.gradient_style = {S_solid, S_radial},
        !.gradient_center_color = {<<>>, S_red}]

InitColors == InitWith(Configs({S_png}), {{"Downloads"}})

NextColors == NextWith(ColorInputs, ColorToolInputs)

SpecColors == InitColors /\ [][NextColors]_vars

\* the colour fields of the call that the caller gave a value
SuppliedColors ==
    LET a == call.args
    IN  IF call.op \in BasicOps \cup LogoOps THEN {a.fg_color, a.bg_color}
        ELSE IF call.op \in TransparentOps THEN {a.fg_color}
        ELSE IF call.op \in GradientOps THEN {a.bg_color, a.center_color, a.edge_color}
        ELSE IF call.op \in StyledOps
        THEN {a.fg_color, a.bg_color}
             \cup {c \in {a.gradient_center_color, a.gradient_edge_color} : c # <<>>}
        ELSE {}

\* C17 as claimed: a generation call in which a supplied colour field is
\* no colour to the colour parser raises the parser's error, whichever
\* fill mode is selected.
C17_EveryColorValidated ==
    (call.op \in GenerationOps /\ \E c \in SuppliedColors : ~ _parse_color(c).ok) =>
        /\ result.status = "raised"
        /\ result.exc = "ValueError"
        /\ result.msg.kind \in {"Invalid color", "invalid literal for int()"}

\* ------------------------------------------------------------------------
\* SpecLogo: logos larger and smaller than the target, wide and tall,
\* ratios inside and outside [0.1, 0.4], canvases of odd and even width
\* ------------------------------------------------------------------------

LogoInputs ==
    [Defaults EXCEPT
        !.size = {Omitted, Given(3)},
        !.asset_path = {"logo", "icon", "tall"},
        !.logo_size_ratio = {5, 25, 30, 90}]

LogoToolInputs ==
    [Defaults EXCEPT
        !.asset_path = {"logo", "icon"},
        !.logo_size_ratio = {30, 90}]

InitLogo == InitWith(Configs({S_png}), {{"Downloads"}})

NextLogo == NextWith(LogoInputs, LogoToolInputs)

SpecLogo == InitLogo /\ [][NextLogo]_vars

\* the overlay in the image the last logo call saved
Overlay == SavedFile.image.overlay

\* C18 as claimed: a returned logo call echoes the caller's ratio clamped
\* into [0.1, 0.4] (10 to 40 hundredths), and its logo, larger or smaller
\* than the target, has been resized so that its longest side is
\* ratio * canvas_width rounded down and its other side keeps the aspect
\* of the original to within a pixel.
C18_LogoResizedToRatio ==
    ReturnedFrom(LogoOps) =>
        LET given == call.args.logo_size_ratio
            ratio == IF given < 10 THEN 10 ELSE IF given > 40 THEN 40 ELSE given
            target == (Overlay.canvas[1] * ratio) \div 100
            original == Assets[call.args.logo_path].size
            long == IF original[1] >= original[2] THEN 1 ELSE 2
            short == 3 - long
        IN  /\ result.value.logo_size_ratio = ratio
            /\ Overlay.logo_size[long] = target
            /\ Abs(Overlay.logo_size[short] * original[long] - target * original[short])
                  < original[long]

\* C19 as claimed: in the image of a returned logo call the white
\* rectangle has the corner radius of the padding, a tenth of the width of
\* the resized logo rounded down; it reaches that padding beyond the pasted
\* logo on each of the four sides; it is centred on the canvas (to the
\* pixel the parities allow); and its bounding box contains the logo's and
\* is larger.
C19_WhiteRectangleAroundLogo ==
    ReturnedFrom(LogoOps) =>
        LET rect == Overlay.rect
            box == Overlay.logo_box
            padding == Overlay.logo_size[1] \div 10
        IN  /\ Overlay.radius = padding
            /\ box[1] - rect[1] = padding
            /\ box[2] - rect[2] = padding
            /\ rect[3] - box[3] = padding
            /\ rect[4] - box[4] = padding
            /\ Abs(rect[1] + rect[3] - (Overlay.canvas[1] - 1)) <= 1
            /\ Abs(rect[2] + rect[4] - (Overlay.canvas[2] - 1)) <= 1
            /\ rect[1] <= box[1] /\ rect[2] <= box[2]
            /\ rect[3] >= box[3] /\ rect[4] >= box[4]
            /\ rect # box

\* ------------------------------------------------------------------------
\* Levels echoed and levels encoded (checked under SpecOptions)
\* ------------------------------------------------------------------------

\* C20 as claimed: the record of a returned basic, styled, gradient,
\* image-sampled or transparent call names one of L, M, Q, H, and the
\* symbol in the file was encoded at the level the record names.
C20_RecordNamesEncodedLevel ==
    ReturnedFrom(GenerationOps \ LogoOps) =>
        /\ result.value.error_correction \in {<<"L">>, <<"M">>, <<"Q">>, <<"H">>}
        /\ SavedFile.image.qr.ec = result.value.error_correction

====
